---- MODULE Spec2Model ----
(***************************************************************************)
(* A model of the snake game in src/main.go: the per-frame update of every *)
(* snake (direction smoothing, segment-chain shift and growth, mouth       *)
(* interpolation), apple eating and relocation, the shared score with its  *)
(* hunger and invulnerability counters, and the debug (cheat) operations.  *)
(*                                                                         *)
(* Numbers.  Angles are float32 radians in the source; here they are       *)
(* fixed-point integers in hundredths of a radian (maxDirDiff = 0.1 rad is *)
(* 10, Pi is 314, Tau is 628).  Cosine and sine are tables of thousandths  *)
(* indexed by the angle; a float-to-int conversion is truncation toward    *)
(* zero, as Go's int(float32) is.  The score value is a 32-bit Go int      *)
(* (the game is built for wasm32) and wraps on overflow.                   *)
(*                                                                         *)
(* The eye position and the blink counters of a snake are written only by  *)
(* updateEye and read only by the render functions; they are not part of   *)
(* the state modelled here.                                                *)
(***************************************************************************)
EXTENDS Integers, Sequences, FiniteSets, TLC

VARIABLES
  frame,    \* the global frame counter (var frame)
  apple,    \* apple.Pos, a point [X, Y]
  snakes,   \* the list of snakes; each [Peer, segs, Mouth, Dir, state]
  score,    \* the shared score [val, iframes, hunger]
  turn,     \* position of update()'s loop: index of the next snake to process
  pc,       \* "update": between snakes or frames; "relocate": inside TryEat's loop
  rolls,    \* number of apple.Move() calls made by the TryEat call of this step
  lastPen,  \* frame counter when Score.Dec last passed its iframes guard, -1 if never
  cheats,   \* number of debug operations issued so far
  held,     \* the heading the first player holds the stick at, -1 when it is free
  tickScore, \* the score as it was when the frame being processed began
  eaten     \* per snake, the number of times TryEat found the apple in reach

vars == <<frame, apple, snakes, score, turn, pc, rolls, lastPen, cheats, held,
          tickScore, eaten>>

----------------------------------------------------------------------------
(* Constants of the program *)

period == 10
snakeWidth == 7
segmentLen == 14
maxDirDiff == 10
HungerPeriod == 360
IFrames == 60
appleRadius == 5
appleDiameter == appleRadius * 2

Moving == 0
Eating == 1
Growing == 2

\* firefly.Width and firefly.Height, the size of the screen
Width == 240
Height == 160

\* tinymath.Pi and tinymath.Tau in hundredths of a radian
Pi == 314
Tau == 628

\* the range of Go's int on the 32-bit target
MaxInt == 2147483647
MinInt == -2147483647 - 1

----------------------------------------------------------------------------
(* Bounds of the model *)

MaxFrame == 31      \* frames of a run with steering (Spec) or coasting (SpecFair)
MaxDebugFrame == 62 \* frames of a run with debug operations (SpecDebug)
MaxTurnFrame == 1   \* frames of a run from any direction to any heading (SpecTurn)
MaxHoldFrame == 35  \* frames of a run holding one heading (SpecHold)
MaxEdgeFrame == 24  \* frames of a run towards the top edge (SpecEdge)
MaxPeers == 2       \* connected players, 1..MaxPeers (SpecFair, SpecDebug)
MaxSteerPeers == 1  \* connected players under Spec, 1..MaxSteerPeers
MaxCheats == 2      \* debug operations per run
MaxRolls == 3       \* the rolls counter saturates here

----------------------------------------------------------------------------
(* Float arithmetic *)

\* thousandths: the unit of the cosine and sine tables
Milli == 1000

\* int(n / d) for a float quotient: truncation toward zero
Trunc(n, d) == IF n >= 0 THEN n \div d ELSE -((-n) \div d)

\* tinymath.Cos(a) in thousandths, a in hundredths of a radian, 0..Tau
CosTable ==
  <<
     1000, 1000, 1000, 1000, 999, 999, 998, 998, 997, 996, 995, 994, 993, 992, 990, 989,
     987, 986, 984, 982, 980, 978, 976, 974, 971, 969, 966, 964, 961, 958, 955, 952,
     949, 946, 943, 939, 936, 932, 929, 925, 921, 917, 913, 909, 905, 900, 896, 892,
     887, 882, 878, 873, 868, 863, 858, 853, 847, 842, 836, 831, 825, 820, 814, 808,
     802, 796, 790, 784, 778, 771, 765, 758, 752, 745, 738, 732, 725, 718, 711, 704,
     697, 689, 682, 675, 667, 660, 652, 645, 637, 629, 622, 614, 606, 598, 590, 582,
     574, 565, 557, 549, 540, 532, 523, 515, 506, 498, 489, 480, 471, 462, 454, 445,
     436, 427, 418, 408, 399, 390, 381, 372, 362, 353, 344, 334, 325, 315, 306, 296,
     287, 277, 267, 258, 248, 238, 229, 219, 209, 199, 190, 180, 170, 160, 150, 140,
     130, 121, 111, 101, 91, 81, 71, 61, 51, 41, 31, 21, 11, 1, -9, -19,
     -29, -39, -49, -59, -69, -79, -89, -99, -109, -119, -129, -139, -149, -159, -168, -178,
     -188, -198, -208, -217, -227, -237, -247, -256, -266, -276, -285, -295, -304, -314, -323, -333,
     -342, -352, -361, -370, -379, -389, -398, -407, -416, -425, -434, -443, -452, -461, -470, -479,
     -487, -496, -505, -513, -522, -531, -539, -547, -556, -564, -572, -580, -589, -597, -605, -612,
     -620, -628, -636, -644, -651, -659, -666, -674, -681, -688, -696, -703, -710, -717, -724, -731,
     -737, -744, -751, -757, -764, -770, -777, -783, -789, -795, -801, -807, -813, -819, -824, -830,
     -836, -841, -846, -852, -857, -862, -867, -872, -877, -882, -886, -891, -895, -900, -904, -908,
     -912, -916, -920, -924, -928, -932, -935, -939, -942, -946, -949, -952, -955, -958, -961, -963,
     -966, -969, -971, -973, -976, -978, -980, -982, -984, -985, -987, -989, -990, -991, -993, -994,
     -995, -996, -997, -997, -998, -999, -999, -1000, -1000, -1000, -1000, -1000, -1000, -1000, -999, -999,
     -998, -998, -997, -996, -995, -994, -993, -992, -990, -989, -987, -986, -984, -982, -980, -978,
     -976, -974, -972, -969, -967, -964, -961, -959, -956, -953, -950, -947, -943, -940, -936, -933,
     -929, -926, -922, -918, -914, -910, -905, -901, -897, -892, -888, -883, -878, -874, -869, -864,
     -859, -853, -848, -843, -837, -832, -826, -821, -815, -809, -803, -797, -791, -785, -779, -772,
     -766, -759, -753, -746, -740, -733, -726, -719, -712, -705, -698, -691, -683, -676, -669, -661,
     -654, -646, -638, -631, -623, -615, -607, -599, -591, -583, -575, -567, -558, -550, -542, -533,
     -525, -516, -508, -499, -490, -482, -473, -464, -455, -446, -437, -428, -419, -410, -401, -392,
     -382, -373, -364, -355, -345, -336, -326, -317, -307, -298, -288, -279, -269, -259, -250, -240,
     -230, -221, -211, -201, -191, -181, -172, -162, -152, -142, -132, -122, -112, -102, -92, -82,
     -72, -62, -52, -42, -32, -22, -12, -2, 8, 18, 28, 38, 48, 58, 68, 78,
     87, 97, 107, 117, 127, 137, 147, 157, 167, 177, 187, 196, 206, 216, 226, 235,
     245, 255, 264, 274, 284, 293, 303, 312, 322, 331, 341, 350, 359, 369, 378, 387,
     396, 406, 415, 424, 433, 442, 451, 460, 469, 477, 486, 495, 503, 512, 521, 529,
     538, 546, 554, 563, 571, 579, 587, 595, 603, 611, 619, 627, 635, 642, 650, 658,
     665, 673, 680, 687, 694, 702, 709, 716, 723, 730, 736, 743, 750, 756, 763, 769,
     776, 782, 788, 794, 800, 806, 812, 818, 824, 829, 835, 840, 846, 851, 856, 861,
     866, 871, 876, 881, 886, 890, 895, 899, 903, 908, 912, 916, 920, 924, 927, 931,
     935, 938, 942, 945, 948, 951, 954, 957, 960, 963, 966, 968, 971, 973, 975, 977,
     979, 981, 983, 985, 987, 988, 990, 991, 992, 994, 995, 996, 997, 997, 998, 999,
     999, 999, 1000, 1000, 1000  >>

\* tinymath.Sin(a) in thousandths, a in hundredths of a radian, 0..Tau
SinTable ==
  <<
     0, 10, 20, 30, 40, 50, 60, 70, 80, 90, 100, 110, 120, 130, 140, 149,
     159, 169, 179, 189, 199, 208, 218, 228, 238, 247, 257, 267, 276, 286, 296, 305,
     315, 324, 333, 343, 352, 362, 371, 380, 389, 399, 408, 417, 426, 435, 444, 453,
     462, 471, 479, 488, 497, 506, 514, 523, 531, 540, 548, 556, 565, 573, 581, 589,
     597, 605, 613, 621, 629, 637, 644, 652, 659, 667, 674, 682, 689, 696, 703, 710,
     717, 724, 731, 738, 745, 751, 758, 764, 771, 777, 783, 790, 796, 802, 808, 813,
     819, 825, 830, 836, 841, 847, 852, 857, 862, 867, 872, 877, 882, 887, 891, 896,
     900, 904, 909, 913, 917, 921, 925, 928, 932, 936, 939, 942, 946, 949, 952, 955,
     958, 961, 964, 966, 969, 971, 973, 976, 978, 980, 982, 984, 985, 987, 989, 990,
     991, 993, 994, 995, 996, 997, 997, 998, 999, 999, 1000, 1000, 1000, 1000, 1000, 1000,
     1000, 999, 999, 998, 998, 997, 996, 995, 994, 993, 992, 990, 989, 987, 986, 984,
     982, 980, 978, 976, 974, 972, 969, 967, 964, 961, 958, 956, 953, 949, 946, 943,
     940, 936, 933, 929, 925, 921, 917, 913, 909, 905, 901, 896, 892, 887, 883, 878,
     873, 868, 863, 858, 853, 848, 842, 837, 831, 826, 820, 814, 808, 803, 797, 790,
     784, 778, 772, 765, 759, 752, 746, 739, 732, 725, 718, 711, 704, 697, 690, 683,
     675, 668, 661, 653, 645, 638, 630, 622, 614, 606, 598, 590, 582, 574, 566, 558,
     549, 541, 533, 524, 516, 507, 498, 490, 481, 472, 463, 454, 445, 436, 427, 418,
     409, 400, 391, 382, 372, 363, 354, 344, 335, 326, 316, 307, 297, 287, 278, 268,
     259, 249, 239, 230, 220, 210, 200, 190, 181, 171, 161, 151, 141, 131, 121, 111,
     101, 91, 82, 72, 62, 52, 42, 32, 22, 12, 2, -8, -18, -28, -38, -48,
     -58, -68, -78, -88, -98, -108, -118, -128, -138, -148, -158, -168, -177, -187, -197, -207,
     -217, -226, -236, -246, -256, -265, -275, -284, -294, -304, -313, -323, -332, -341, -351, -360,
     -369, -379, -388, -397, -406, -415, -424, -434, -443, -451, -460, -469, -478, -487, -495, -504,
     -513, -521, -530, -538, -547, -555, -563, -572, -580, -588, -596, -604, -612, -620, -628, -635,
     -643, -651, -658, -666, -673, -680, -688, -695, -702, -709, -716, -723, -730, -737, -744, -750,
     -757, -763, -770, -776, -782, -789, -795, -801, -807, -812, -818, -824, -830, -835, -841, -846,
     -851, -856, -862, -867, -872, -876, -881, -886, -890, -895, -899, -904, -908, -912, -916, -920,
     -924, -928, -931, -935, -939, -942, -945, -948, -952, -955, -958, -960, -963, -966, -968, -971,
     -973, -975, -978, -980, -982, -983, -985, -987, -988, -990, -991, -993, -994, -995, -996, -997,
     -997, -998, -999, -999, -999, -1000, -1000, -1000, -1000, -1000, -1000, -999, -999, -998, -998, -997,
     -996, -995, -994, -993, -992, -991, -989, -988, -986, -984, -982, -981, -979, -976, -974, -972,
     -970, -967, -964, -962, -959, -956, -953, -950, -947, -944, -940, -937, -933, -930, -926, -922,
     -918, -914, -910, -906, -901, -897, -893, -888, -883, -879, -874, -869, -864, -859, -854, -849,
     -843, -838, -832, -827, -821, -815, -809, -804, -798, -791, -785, -779, -773, -766, -760, -753,
     -747, -740, -733, -726, -720, -713, -706, -698, -691, -684, -677, -669, -662, -654, -647, -639,
     -631, -623, -616, -608, -600, -592, -584, -575, -567, -559, -551, -542, -534, -525, -517, -508,
     -500, -491, -482, -473, -465, -456, -447, -438, -429, -420, -411, -402, -392, -383, -374, -365,
     -355, -346, -336, -327, -318, -308, -299, -289, -279, -270, -260, -250, -241, -231, -221, -212,
     -202, -192, -182, -172, -162, -153, -143, -133, -123, -113, -103, -93, -83, -73, -63, -53,
     -43, -33, -23, -13, -3  >>

Cos(a) == CosTable[a + 1]
Sin(a) == SinTable[a + 1]

----------------------------------------------------------------------------
(* Toroidal geometry *)

Point(x, y) == [X |-> x, Y |-> y]

normalizeX(x) ==
  IF x >= Width THEN x - Width
  ELSE IF x < 0 THEN x + Width
  ELSE x

\* normalizeY without its second branch
normalizeYNoLift(y) ==
  IF y >= Height THEN y - Height ELSE y

normalizeY(y) ==
  IF y >= Height THEN y - Height
  ELSE IF y < 0 THEN y + Height
  ELSE y

\* <<start, end>> with one of them moved across the seam
denormalizeX(start, end) ==
  IF start - end > 30 THEN <<start, end + Width>>
  ELSE IF end - start > 30 THEN <<start + Width, end>>
  ELSE <<start, end>>

denormalizeY(start, end) ==
  IF start - end > 30 THEN <<start, end + Height>>
  ELSE IF end - start > 30 THEN <<start + Height, end>>
  ELSE <<start, end>>

Min(a, b) == IF a < b THEN a ELSE b
Max(a, b) == IF a > b THEN a ELSE b

NewBBox(start, end, margin) ==
  [left  |-> Point(Min(start.X, end.X) - margin, Min(start.Y, end.Y) - margin),
   right |-> Point(Max(start.X, end.X) + margin, Max(start.Y, end.Y) + margin)]

\* BBox.Contains with the bounds excluded
ContainsInside(b, p) ==
  p.X > b.left.X /\ p.X < b.right.X /\ p.Y > b.left.Y /\ p.Y < b.right.Y

Contains(b, p) ==
  ~(p.X < b.left.X \/ p.X > b.right.X \/ p.Y < b.left.Y \/ p.Y > b.right.Y)

----------------------------------------------------------------------------
(* Snake *)

NewSnake(peer) ==
  LET shiftY == 10 + snakeWidth + peer * 20
  IN  [Peer  |-> peer,
       segs  |-> <<Point(segmentLen * 2, shiftY), Point(segmentLen, shiftY)>>,
       Mouth |-> Point(0, 0),
       Dir   |-> 0,
       state |-> Moving]

\* setDir without the lower clamp of the turn
setDirNoLowerClamp(dir, pad) ==
  IF pad.nan THEN dir
  ELSE
    LET diff    == pad.az - dir
        turned  == IF diff > Pi THEN -maxDirDiff
                   ELSE IF diff < -Pi THEN maxDirDiff
                   ELSE diff
        stepped == IF turned > maxDirDiff THEN dir + maxDirDiff
                   ELSE dir + turned
        lifted  == IF stepped < 0 THEN stepped + Tau ELSE stepped
    IN  IF lifted > Tau THEN lifted - Tau ELSE lifted

\* Snake.setDir: the new Dir for the pad's azimuth (not a number, or the
\* angle pad.az)
setDir(dir, pad) ==
  IF pad.nan THEN dir
  ELSE
    LET diff    == pad.az - dir
        turned  == IF diff > Pi THEN -maxDirDiff
                   ELSE IF diff < -Pi THEN maxDirDiff
                   ELSE diff
        stepped == IF turned > maxDirDiff THEN dir + maxDirDiff
                   ELSE IF turned < -maxDirDiff THEN dir - maxDirDiff
                   ELSE dir + turned
        lifted  == IF stepped < 0 THEN stepped + Tau ELSE stepped
    IN  IF lifted > Tau THEN lifted - Tau ELSE lifted

\* the point one segment ahead of the head, along Dir
ShiftHead(s) ==
  Point(normalizeX(s.segs[1].X + Trunc(Cos(s.Dir) * segmentLen, Milli)),
        normalizeY(s.segs[1].Y - Trunc(Sin(s.Dir) * segmentLen, Milli)))

\* shift that never lengthens the chain
shiftNeverGrows(s) ==
  LET head == ShiftHead(s)
  IN  [s EXCEPT !.segs  = <<head>> \o SubSeq(s.segs, 1, Len(s.segs) - 1),
                !.state = IF s.state = Eating THEN Growing ELSE Moving]

\* shift that drops the tail segment while the snake is Moving
shiftLosesTail(s) ==
  LET head == ShiftHead(s)
  IN  IF s.state = Growing
      THEN [s EXCEPT !.segs = <<head>> \o s.segs, !.state = Moving]
      ELSE IF s.state = Eating
      THEN [s EXCEPT !.segs  = <<head>> \o SubSeq(s.segs, 1, Len(s.segs) - 1),
                     !.state = Growing]
      ELSE [s EXCEPT !.segs = IF Len(s.segs) > 2
                              THEN <<head>> \o SubSeq(s.segs, 1, Len(s.segs) - 2)
                              ELSE <<head>> \o SubSeq(s.segs, 1, Len(s.segs) - 1)]

\* shift that lengthens the chain in the cycle the apple was eaten in
shiftGrowsAtOnce(s) ==
  LET head == ShiftHead(s)
  IN  IF s.state = Growing \/ s.state = Eating
      THEN [s EXCEPT !.segs = <<head>> \o s.segs, !.state = Moving]
      ELSE [s EXCEPT !.segs  = <<head>> \o SubSeq(s.segs, 1, Len(s.segs) - 1)]

\* Snake.shift
shift(s) ==
  LET head == ShiftHead(s)
  IN  IF s.state = Growing
      THEN [s EXCEPT !.segs = <<head>> \o s.segs, !.state = Moving]
      ELSE [s EXCEPT !.segs  = <<head>> \o SubSeq(s.segs, 1, Len(s.segs) - 1),
                     !.state = IF s.state = Eating THEN Growing ELSE s.state]

\* Snake.updateMouth, f the frame within the cycle
updateMouth(s, f) ==
  LET neck == s.segs[1]
  IN  [s EXCEPT !.Mouth =
         Point(normalizeX(neck.X + Trunc(Cos(s.Dir) * segmentLen * f, Milli * period)),
               normalizeY(neck.Y - Trunc(Sin(s.Dir) * segmentLen * f, Milli * period)))]

\* Snake.Update shifting the chain on every frame
UpdateShiftAlways(s, fr, pad) ==
  LET f  == fr % period
      s1 == IF pad.pressed THEN [s EXCEPT !.Dir = setDir(s.Dir, pad)] ELSE s
  IN  updateMouth(shift(s1), f)

\* Snake.Update for the global frame counter fr and the pad read for the peer
Update(s, fr, pad) ==
  LET f  == fr % period
      s1 == IF pad.pressed THEN [s EXCEPT !.Dir = setDir(s.Dir, pad)] ELSE s
      s2 == IF f = 0 THEN shift(s1) ELSE s1
  IN  updateMouth(s2, f)

\* Snake.Collides: p is in the box of a segment pair behind the neck
Collides(s, p) ==
  \E k \in 2 .. Len(s.segs) - 1 :
    LET xs == denormalizeX(s.segs[k].X, s.segs[k + 1].X)
        ys == denormalizeY(s.segs[k].Y, s.segs[k + 1].Y)
    IN  Contains(NewBBox(Point(xs[1], ys[1]), Point(xs[2], ys[2]), snakeWidth \div 2), p)

\* the test of Snake.TryEat: the mouth reaches the apple at position a
Reaches(s, a) ==
  LET x == a.X - s.Mouth.X
      y == a.Y - s.Mouth.Y
      r == appleRadius + snakeWidth \div 2
  IN  ~(x * x + y * y > r * r)

----------------------------------------------------------------------------
(* Apple *)

\* Apple.Move with the two values d = <<r1, r2>> drawn from firefly.GetRandom
\* Apple.Move without the offset by the radius
MoveNoMargin(d) ==
  Point(d[1] % (Width - appleRadius * 2), d[2] % (Height - appleRadius * 2))

Move(d) ==
  Point((d[1] % (Width - appleRadius * 2)) + appleRadius,
        (d[2] % (Height - appleRadius * 2)) + appleRadius)

----------------------------------------------------------------------------
(* Score *)

NewScore == [val |-> 0, iframes |-> IFrames, hunger |-> HungerPeriod]

\* s.val++ on a 32-bit int
Inc(sc) ==
  [sc EXCEPT !.hunger = HungerPeriod,
             !.val = IF sc.val = MaxInt THEN MinInt ELSE sc.val + 1]

\* Score.Dec without its iframes guard
DecUnguarded(sc) ==
  [sc EXCEPT !.iframes = IFrames,
             !.val = IF sc.val > 0 THEN sc.val - ((sc.val \div 5) + 1) ELSE sc.val]

Dec(sc) ==
  IF sc.iframes > 0 THEN sc
  ELSE [sc EXCEPT !.iframes = IFrames,
                  !.val = IF sc.val > 0 THEN sc.val - ((sc.val \div 5) + 1) ELSE sc.val]

\* Score.Update for one snake
ScoreUpdate(sc, s) ==
  LET s1 == IF sc.iframes > 0 THEN [sc EXCEPT !.iframes = sc.iframes - 1] ELSE sc
      s2 == IF s1.hunger = 0
            THEN [Dec(s1) EXCEPT !.hunger = HungerPeriod]
            ELSE [s1 EXCEPT !.hunger = s1.hunger - 1]
  IN  IF Collides(s, s.Mouth) THEN Dec(s2) ELSE s2

\* Score.Update passes the iframes guard of Dec at least once
Penalized(sc, s) ==
  /\ sc.iframes <= 1
  /\ (sc.hunger = 0 \/ Collides(s, s.Mouth))

----------------------------------------------------------------------------
(* Inputs *)

\* what firefly.ReadPad can return: released, pressed with a degenerate
\* heading, pressed with a heading
NoPad == [pressed |-> FALSE, nan |-> TRUE, az |-> 0]
Degenerate == [pressed |-> TRUE, nan |-> TRUE, az |-> 0]
Pressed(az) == [pressed |-> TRUE, nan |-> FALSE, az |-> az]

\* headings steered to under Spec: up (Pi/2)
Headings == {157}
Pads == {NoPad} \cup {Pressed(a) : a \in Headings}

\* pairs of values drawn from firefly.GetRandom under Spec; Move puts the
\* apple at (30,17), (66,17) and (120,100)
Draws == {<<255, 162>>, <<61, 12>>, <<115, 95>>}

\* the N of the debug reward and penalty operations
CheatN == {0, 1, 2, 5, MaxInt}

----------------------------------------------------------------------------
(* boot *)

boot(n, d) ==
  /\ frame = 0
  /\ apple = Move(d)
  /\ snakes = [i \in 1 .. n |-> NewSnake(i - 1)]
  /\ score = NewScore
  /\ turn = 1
  /\ pc = "update"
  /\ rolls = 0
  /\ lastPen = -1
  /\ cheats = 0
  /\ held = -1
  /\ tickScore = NewScore
  /\ eaten = [i \in 1 .. Len(snakes) |-> 0]

Init == \E n \in 1 .. MaxSteerPeers, d \in Draws : boot(n, d)

----------------------------------------------------------------------------
(* update: one step per snake of the loop; TryEat's relocation loop is    *)
(* stepped one apple.Move() at a time                                      *)

Idle == turn = 1 /\ pc = "update"

NextTurn == IF turn = Len(snakes) THEN 1 ELSE turn + 1

\* the rest of the loop body once TryEat has returned: score.Update(snake)
Finish(s, sc, fr) ==
  /\ score' = ScoreUpdate(sc, s)
  /\ lastPen' = IF Penalized(sc, s) THEN fr ELSE lastPen
  /\ turn' = NextTurn
  /\ pc' = "update"

\* frame++ (before the first snake), then snake.Update, snake.TryEat and
\* score.Update for the snake whose turn it is; d is drawn by TryEat's
\* first apple.Move()
update(pad, d, limit) ==
  /\ pc = "update"
  /\ turn = 1 => frame < limit
  /\ LET fr == IF turn = 1 THEN frame + 1 ELSE frame
         s1 == Update(snakes[turn], fr, pad)
     IN  /\ frame' = fr
         /\ UNCHANGED <<cheats, held>>
         /\ tickScore' = IF turn = 1 THEN score ELSE tickScore
         /\ eaten' = IF Reaches(s1, apple)
                      THEN [eaten EXCEPT ![turn] = @ + 1]
                      ELSE eaten
         /\ IF ~Reaches(s1, apple)
            THEN /\ snakes' = [snakes EXCEPT ![turn] = s1]
                 /\ apple' = apple
                 /\ rolls' = 0
                 /\ Finish(s1, score, fr)
            ELSE LET s2 == [s1 EXCEPT !.state = Eating]
                 IN  /\ snakes' = [snakes EXCEPT ![turn] = s2]
                     /\ apple' = Move(d)
                     /\ rolls' = 1
                     /\ IF Collides(s2, Move(d))
                        THEN /\ score' = Inc(score)
                             /\ pc' = "relocate"
                             /\ UNCHANGED <<turn, lastPen>>
                        ELSE Finish(s2, Inc(score), fr)

\* TryEat's loop as an if: one more apple.Move() and no further test
relocateOnce(d) ==
  /\ pc = "relocate"
  /\ apple' = Move(d)
  /\ rolls' = Min(rolls + 1, MaxRolls)
  /\ UNCHANGED <<frame, snakes, cheats, held, tickScore, eaten>>
  /\ Finish(snakes[turn], score, frame)

\* TryEat's loop with its test negated
relocateWhileClear(d) ==
  /\ pc = "relocate"
  /\ apple' = Move(d)
  /\ rolls' = Min(rolls + 1, MaxRolls)
  /\ UNCHANGED <<frame, snakes, cheats, held, tickScore, eaten>>
  /\ IF ~Collides(snakes[turn], Move(d))
     THEN UNCHANGED <<score, turn, pc, lastPen>>
     ELSE Finish(snakes[turn], score, frame)

\* one more apple.Move() of TryEat's loop, drawing d
relocate(d) ==
  /\ pc = "relocate"
  /\ apple' = Move(d)
  /\ rolls' = Min(rolls + 1, MaxRolls)
  /\ UNCHANGED <<frame, snakes, cheats, held, tickScore, eaten>>
  /\ IF Collides(snakes[turn], Move(d))
     THEN UNCHANGED <<score, turn, pc, lastPen>>
     ELSE Finish(snakes[turn], score, frame)

----------------------------------------------------------------------------
(* cheat: the debug operations, issued between frames.  Any other code c   *)
(* than 1, 2, 3 returns 0 and changes nothing.                             *)

\* v calls of score.Inc()
IncTimes(sc, v) ==
  IF v <= 0 THEN sc
  ELSE [sc EXCEPT !.hunger = HungerPeriod,
                  !.val = IF sc.val > MaxInt - v
                          THEN (sc.val - MaxInt - 1) + (v - MaxInt - 1)
                          ELSE sc.val + v]

\* v calls of score.Dec(): the first sets iframes, the others return at once
DecTimes(sc, v) == IF v <= 0 THEN sc ELSE Dec(sc)

cheat(c, v, d) ==
  /\ Idle
  /\ cheats < MaxCheats
  /\ cheats' = cheats + 1
  /\ UNCHANGED <<frame, snakes, turn, pc, rolls, held, tickScore, eaten>>
  /\ \/ /\ c = 1
        /\ apple' = Move(d)
        /\ UNCHANGED <<score, lastPen>>
     \/ /\ c = 2
        /\ score' = IncTimes(score, v)
        /\ UNCHANGED <<apple, lastPen>>
     \/ /\ c = 3
        /\ score' = DecTimes(score, v)
        /\ lastPen' = IF v > 0 /\ score.iframes = 0 THEN frame ELSE lastPen
        /\ UNCHANGED apple

----------------------------------------------------------------------------
(* Spec: the game with steering.  The first player steers freely, the      *)
(* others leave the pad released.                                          *)

PadsOf(peer) == IF peer = 0 THEN Pads ELSE {NoPad}

Tick == \E pad \in PadsOf(snakes[turn].Peer), d \in Draws : update(pad, d, MaxFrame)
Reroll == \E d \in Draws : relocate(d)

Next == Tick \/ Reroll

Spec == Init /\ [][Next]_vars

----------------------------------------------------------------------------
(* SpecFair: the game with all pads released and fair random draws: every  *)
(* value of the generator that stays possible is drawn in the end.         *)

InitFair == \E n \in 1 .. MaxPeers, d \in Draws : boot(n, d)

Coast == \E d \in Draws : update(NoPad, d, MaxFrame)

NextFair == Coast \/ Reroll

SpecFair == InitFair /\ [][NextFair]_vars /\ \A d \in Draws : WF_vars(relocate(d))

----------------------------------------------------------------------------
(* SpecDebug: the score under the debug operations, issued between frames. *)
(* All pads are released and the generator always returns the same pair,   *)
(* which puts the apple at (30,17): the first snake eats it on each of its *)
(* first frames, while it still has two segments and TryEat's loop is not  *)
(* entered.                                                                *)

SameDraws == {<<255, 162>>}

\* another pair, for (120,100), off the snakes' paths
FarDraws == {<<115, 95>>}

InitDebug == \E n \in 1 .. MaxPeers, d \in SameDraws : boot(n, d)

Drift == \E d \in SameDraws : update(NoPad, d, MaxDebugFrame)
Cheat == \E c \in 1 .. 3, v \in CheatN, d \in SameDraws : cheat(c, v, d)

NextDebug == Drift \/ Cheat

SpecDebug == InitDebug /\ [][NextDebug]_vars

----------------------------------------------------------------------------
(* SpecTurn: one player, from any direction, steering to any heading or    *)
(* none.  The headings cover the range of an arctangent, (-Pi, Pi], and    *)
(* the range [0, Tau).                                                     *)

Directions == 0 .. Tau - 1
AnyHeading == 1 - Pi .. Tau - 1
AnyPad == {NoPad, Degenerate} \cup {Pressed(a) : a \in AnyHeading}

InitTurn ==
  /\ frame = 0
  /\ apple \in {Move(d) : d \in FarDraws}
  /\ snakes \in {<<[NewSnake(0) EXCEPT !.Dir = a]>> : a \in Directions}
  /\ score = NewScore
  /\ turn = 1
  /\ pc = "update"
  /\ rolls = 0
  /\ lastPen = -1
  /\ cheats = 0
  /\ held = -1
  /\ tickScore = NewScore
  /\ eaten = [i \in 1 .. Len(snakes) |-> 0]

Turn == \E pad \in AnyPad, d \in FarDraws : update(pad, d, MaxTurnFrame)

SpecTurn == InitTurn /\ [][Turn]_vars

----------------------------------------------------------------------------
(* SpecHold: one player, from any direction, holding the stick at one      *)
(* heading on every frame.                                                 *)

HeldHeadings == {0, 1, 5, 10, 157, 313, 314, 315, 471, 618, 623, 627}

InitHold ==
  /\ frame = 0
  /\ apple \in {Move(d) : d \in FarDraws}
  /\ snakes \in {<<[NewSnake(0) EXCEPT !.Dir = a]>> : a \in Directions}
  /\ score = NewScore
  /\ turn = 1
  /\ pc = "update"
  /\ rolls = 0
  /\ lastPen = -1
  /\ cheats = 0
  /\ held \in HeldHeadings
  /\ tickScore = NewScore
  /\ eaten = [i \in 1 .. Len(snakes) |-> 0]

Hold == \E d \in FarDraws : update(Pressed(held), d, MaxHoldFrame)

SpecHold == InitHold /\ [][Hold]_vars

----------------------------------------------------------------------------
(* SpecEdge: the first player holds the stick up from boot and the snake   *)
(* crosses the top edge; the generator puts the apple at the edges of its  *)
(* range and on the snake's way; debug operations between frames.          *)

\* pairs of values drawn from firefly.GetRandom under SpecEdge; Move puts
\* the apple at (35,5), (35,143), (234,154) and (5,17)
EdgeDraws == {<<260, 0>>, <<30, 138>>, <<229, 149>>, <<0, 12>>}

Up == Pi \div 2

InitEdge == \E n \in 1 .. MaxSteerPeers, d \in EdgeDraws : boot(n, d)

Climb ==
  \E d \in EdgeDraws :
    update(IF snakes[turn].Peer = 0 THEN Pressed(Up) ELSE NoPad, d, MaxEdgeFrame)

RerollEdge == \E d \in EdgeDraws : relocate(d)

CheatEdge == \E c \in 1 .. 3, d \in EdgeDraws : cheat(c, 1, d)

NextEdge == Climb \/ RerollEdge \/ CheatEdge

SpecEdge == InitEdge /\ [][NextEdge]_vars

----------------------------------------------------------------------------
(* Claims *)

InField(p) == p.X >= 0 /\ p.X < Width /\ p.Y >= 0 /\ p.Y < Height

\* C1: in every reachable state every segment position and the mouth
\* position of every snake has X in [0, Width) and Y in [0, Height).
C1_WrapInvariant ==
  \A i \in 1 .. Len(snakes) :
    /\ InField(snakes[i].Mouth)
    /\ \A k \in 1 .. Len(snakes[i].segs) : InField(snakes[i].segs[k])

\* a snake that started on row 17 has left through the top edge and come
\* back in at the bottom
C1_Wrapped ==
  \E i \in 1 .. Len(snakes) :
    /\ snakes[i].segs[1].Y >= Height - segmentLen
    /\ snakes[i].Mouth.Y >= Height - 2 * segmentLen

\* C2: the score value is never negative.
C2_ValueNeverNegative == score.val >= 0

\* C3: a penalty that changes the value comes at least IFrames frames after
\* the penalty before it.
C3_OnePenaltyPerWindow ==
  [][(/\ score.iframes < IFrames
      /\ score'.iframes = IFrames
      /\ score'.val < score.val
      /\ lastPen # -1)
     => frame' - lastPen >= IFrames]_vars

\* the angular distance between two directions on the circle
CircDist(a, b) ==
  LET d == IF a > b THEN a - b ELSE b - a
  IN  Min(d, Tau - d)

\* C4: one frame changes a snake's direction by at most maxDirDiff, measured
\* on the circle, whatever the heading; with the pad released or a heading
\* that is not a number the direction is unchanged.
C4_BoundedTurn ==
  [][/\ \A i \in 1 .. Len(snakes) :
          CircDist(snakes[i].Dir, snakes'[i].Dir) <= maxDirDiff
     /\ (\E pad \in {NoPad, Degenerate}, d \in FarDraws : update(pad, d, MaxTurnFrame))
          => snakes'[turn].Dir = snakes[turn].Dir]_vars

\* a frame has passed and the snake has turned to just below the seam at Tau
C4_TurnedAcrossSeam ==
  /\ frame >= 1
  /\ snakes[1].Dir > Tau - maxDirDiff
  /\ snakes[1].Mouth.X > snakes[1].segs[1].X

\* ceil(Pi / maxDirDiff)
ConvergeFrames == (Pi + maxDirDiff - 1) \div maxDirDiff

\* C5: with the same heading in [0, Tau) held on every frame, from any
\* direction in [0, Tau), the direction equals the heading after
\* ConvergeFrames frames and on every frame after that.
C5_Converges == (held # -1 /\ frame >= ConvergeFrames) => snakes[1].Dir = held

\* a step of update()'s loop for the snake whose turn it is
UpdateStep == pc = "update" /\ (frame' # frame \/ turn' # turn \/ pc' = "relocate")

\* an update step on a frame that ends a movement cycle: the snake shifts
ShiftStep == UpdateStep /\ frame' % period = 0

\* an update step in which TryEat finds the apple in reach of the mouth
EatStep == UpdateStep /\ Reaches(snakes'[turn], apple)

\* C6: a shift in state Growing puts the new projected point in front of
\* all previous positions, which keep their order (length + 1); a shift in
\* any other state puts the new point first and gives every other segment
\* the position of its predecessor, dropping the old tail position.
C6_ShiftEffect ==
  [][ShiftStep =>
       LET old  == snakes[turn]
           new  == snakes'[turn]
           head == ShiftHead([old EXCEPT !.Dir = new.Dir])
       IN  IF old.state = Growing
           THEN /\ Len(new.segs) = Len(old.segs) + 1
                /\ new.segs[1] = head
                /\ \A k \in 1 .. Len(old.segs) : new.segs[k + 1] = old.segs[k]
           ELSE /\ Len(new.segs) = Len(old.segs)
                /\ new.segs[1] = head
                /\ \A k \in 2 .. Len(old.segs) : new.segs[k] = old.segs[k - 1]]_vars

\* a cycle has just ended for a snake of three segments or more whose three
\* first positions are distinct
C6_ShiftedLongSnake ==
  /\ frame % period = 0
  /\ pc = "update"
  /\ \E i \in 1 .. Len(snakes) :
       /\ Len(snakes[i].segs) >= 3
       /\ snakes[i].segs[1] # snakes[i].segs[2]
       /\ snakes[i].segs[2] # snakes[i].segs[3]

\* C7: every chain has at least two segments, and no step shortens a chain.
C7_LengthNeverDecreases ==
  /\ \A i \in 1 .. Len(snakes) : Len(snakes[i].segs) >= 2
  /\ [][\A i \in 1 .. Len(snakes) :
          /\ Len(snakes'[i].segs) >= Len(snakes[i].segs)
          /\ Len(snakes'[i].segs) >= 2]_vars

\* a chain has grown and shifted on as a Moving snake
C7_GrownChain ==
  \E i \in 1 .. Len(snakes) :
    /\ Len(snakes[i].segs) >= 3
    /\ snakes[i].state = Moving
    /\ frame % period # 0

\* C8: when a successful TryEat returns, the apple does not collide with
\* the body of the snake that ate.
C8_AppleClearOfEater ==
  [][((pc = "relocate" \/ EatStep) /\ pc' = "update")
       => ~Collides(snakes'[turn], apple')]_vars

\* the snake that moved last
PrevTurn == IF turn = 1 THEN Len(snakes) ELSE turn - 1

\* TryEat has returned after moving the apple more than once
C8_ReturnedAfterReroll ==
  /\ pc = "update"
  /\ rolls >= 2
  /\ snakes[PrevTurn].state = Eating

\* C9: when the apple moved by TryEat collides with the eater's body, the
\* loop moves it at least once more and, with fair draws, ends with the
\* apple clear of that body.
C9_RelocationEnds ==
  [](pc = "relocate" =>
       <>(/\ pc = "update"
          /\ rolls >= 2
          /\ ~Collides(snakes[PrevTurn], apple)))

\* the loop has been entered: the apple lies on the body of the eater
C9_AppleOnBody ==
  /\ pc = "relocate"
  /\ rolls = 1
  /\ Collides(snakes[turn], apple)

\* C10: a snake whose mouth reaches the apple is Eating once its step is
\* done; its next shift, if it eats nothing more, makes it Growing with the
\* chain length unchanged; the shift after that lengthens the chain by one
\* and, if it eats nothing more, leaves it Moving.  Between these steps
\* neither state nor length changes.
C10_EatThenGrow ==
  [][/\ UpdateStep =>
          LET old == snakes[turn]
              new == snakes'[turn]
              ate == Reaches(new, apple)
              shifted == frame' % period = 0
          IN  /\ ate => new.state = Eating
              /\ (shifted /\ old.state = Eating /\ ~ate) =>
                    new.state = Growing /\ Len(new.segs) = Len(old.segs)
              /\ (shifted /\ old.state = Growing) =>
                    /\ Len(new.segs) = Len(old.segs) + 1
                    /\ ~ate => new.state = Moving
              /\ (~shifted /\ ~ate) =>
                    new.state = old.state /\ Len(new.segs) = Len(old.segs)
     /\ \A i \in 1 .. Len(snakes) :
          (i # turn \/ ~UpdateStep) =>
             snakes'[i].state = snakes[i].state /\ Len(snakes'[i].segs) = Len(snakes[i].segs)]_vars

\* a snake has eaten, grown by one segment two shifts later and is Moving
C10_GrownAndMoving ==
  \E i \in 1 .. Len(snakes) :
    /\ Len(snakes[i].segs) = 3
    /\ snakes[i].state = Moving
    /\ score.val >= 1
    /\ frame >= 2 * period

----------------------------------------------------------------------------
(* C11, C12: Snake.Collides *)

\* the pairs (segs[k], segs[k+1]) behind the head-to-neck pair
BodyPairs(s) == 2 .. Len(s.segs) - 1

\* the expanded box of the unwrapped pair k, as four bounds
PairBounds(s, k) ==
  LET xs == denormalizeX(s.segs[k].X, s.segs[k + 1].X)
      ys == denormalizeY(s.segs[k].Y, s.segs[k + 1].Y)
      m  == snakeWidth \div 2
  IN  [xlo |-> Min(xs[1], xs[2]) - m, xhi |-> Max(xs[1], xs[2]) + m,
       ylo |-> Min(ys[1], ys[2]) - m, yhi |-> Max(ys[1], ys[2]) + m]

InsideOrOn(b, p) == b.xlo <= p.X /\ p.X <= b.xhi /\ b.ylo <= p.Y /\ p.Y <= b.yhi

\* points on and just outside the boundary of every body box, the points
\* around every segment, the mouth and the apple
Probes(s) ==
  UNION {LET b == PairBounds(s, k)
         IN  {Point(x, y) : x \in {b.xlo - 1, b.xlo, b.xhi, b.xhi + 1},
                            y \in {b.ylo - 1, b.ylo, b.yhi, b.yhi + 1}}
         : k \in BodyPairs(s)}
  \cup {Point(s.segs[k].X + dx, s.segs[k].Y + dy) :
          k \in 1 .. Len(s.segs), dx \in {-4, 4}, dy \in {-4, 4}}
  \cup {s.Mouth, apple}

\* C11: Collides(s, p) is true exactly when p is inside or on the boundary
\* of the expanded box of at least one body pair (a pair other than head to
\* neck); a snake of two segments, which has no body pair, collides with
\* no point.
C11_BoxTest ==
  \A i \in 1 .. Len(snakes) :
    \A p \in Probes(snakes[i]) :
      Collides(snakes[i], p) <=>
        \E k \in BodyPairs(snakes[i]) : InsideOrOn(PairBounds(snakes[i], k), p)

\* TryEat's loop found the apple on the body, and a corner of a body box
\* collides while its outer neighbour does not
C11_CornerOnBoundary ==
  /\ pc = "relocate"
  /\ \E k \in BodyPairs(snakes[turn]) :
       LET b == PairBounds(snakes[turn], k)
       IN  /\ Collides(snakes[turn], Point(b.xlo, b.ylo))
           /\ ~Collides(snakes[turn], Point(b.xlo - 1, b.ylo))

\* the toroidal reference: some copy of p, shifted by whole playfields,
\* is in the box of an unwrapped body pair
TorusCollides(s, p) ==
  \E k \in BodyPairs(s), ox \in {-Width, 0, Width}, oy \in {-Height, 0, Height} :
    InsideOrOn(PairBounds(s, k), Point(p.X + ox, p.Y + oy))

\* in-range points: the stored positions of the chain, the mouth, the apple
FieldProbes(s) == {s.segs[k] : k \in 1 .. Len(s.segs)} \cup {s.Mouth, apple}

----------------------------------------------------------------------------
(* C13, C14: penalty and reward *)

\* what one penalty makes of the score sc, read off the score after it
PenaltyEffect(sc, after) ==
  IF sc.iframes > 0
  THEN after.val = sc.val /\ after.iframes = sc.iframes
  ELSE /\ after.iframes = IFrames
       /\ sc.val > 0 => after.val = sc.val - ((sc.val \div 5) + 1)

\* C13: a penalty applied while iframes = 0 and val = v > 0 sets val to
\* v - (floor(v / 5) + 1) and iframes to IFrames; a penalty applied while
\* iframes > 0 changes neither val nor iframes.  The debug penalty with
\* N >= 1 applies one penalty (the other N - 1 find iframes > 0).
C13_PenaltyEffect ==
  [][\A v \in CheatN :
       (v > 0 /\ \E d \in SameDraws : cheat(3, v, d)) => PenaltyEffect(score, score')]_vars

\* a penalty has just taken the score from 12 to 9
C13_TwelveToNine ==
  /\ score.val = 9
  /\ score.iframes = IFrames
  /\ lastPen = frame
  /\ cheats = MaxCheats

\* what n rewards make of the score sc, read off the score after them
RewardEffect(sc, after, n) ==
  /\ after.hunger = HungerPeriod
  /\ after.iframes = sc.iframes
  /\ after.val > sc.val
  /\ after.val - sc.val = n

\* C14: every reward sets hunger to HungerPeriod and adds exactly 1 to
\* val, leaving iframes as it was: the debug reward with N >= 1 adds N,
\* and a successful eat adds 1 (when TryEat returns in the same step,
\* Score.Update then takes one frame off both counters).
C14_RewardEffect ==
  [][/\ \A v \in CheatN :
          (v > 0 /\ \E d \in SameDraws : cheat(2, v, d)) => RewardEffect(score, score', v)
     /\ EatStep =>
          IF pc' = "relocate"
          THEN RewardEffect(score, score', 1)
          ELSE lastPen' = lastPen =>
                 /\ score'.hunger = HungerPeriod - 1
                 /\ score'.iframes = Max(score.iframes - 1, 0)
                 /\ score'.val > score.val
                 /\ score'.val - score.val = 1]_vars

----------------------------------------------------------------------------
(* C15: the range of Dir *)

\* C15: in every reachable state the direction of every snake is in the
\* half-open range [0, Tau): never negative, never Tau or more.
C15_DirInRange ==
  \A i \in 1 .. Len(snakes) : snakes[i].Dir >= 0 /\ snakes[i].Dir < Tau

----------------------------------------------------------------------------
(* C16: Score.Update per frame *)

\* the step that ends a frame: the last snake's score.Update has run
FrameEnds ==
  /\ UpdateStep \/ pc = "relocate"
  /\ pc' = "update"
  /\ turn' = 1

\* C16: over one frame iframes goes down by at most 1, and hunger goes
\* down by exactly 1 or is reset once (to HungerPeriod by the hunger
\* penalty, or by a reward, after which the frame's Score.Update takes one
\* off), whatever the number of snakes; tickScore is the score the frame
\* began with.
C16_OncePerFrame ==
  [][FrameEnds =>
       /\ score'.iframes >= tickScore'.iframes - 1
       /\ \/ score'.hunger = tickScore'.hunger - 1
          \/ score'.hunger = HungerPeriod
          \/ score'.hunger = HungerPeriod - 1]_vars

----------------------------------------------------------------------------
(* C17, C18: the apple and the edges *)

\* C17: in every reachable state (after boot, after every move of an
\* eating relocation, after the debug relocation) the apple is at least
\* appleRadius away from every edge:
\* appleRadius <= X < Width - appleRadius, appleRadius <= Y < Height - appleRadius.
C17_AppleMargin ==
  /\ appleRadius <= apple.X /\ apple.X < Width - appleRadius
  /\ appleRadius <= apple.Y /\ apple.Y < Height - appleRadius

\* the apple is in the far corner of its range after a debug relocation
\* and an eating relocation that was repeated
C17_CornerAfterRelocations ==
  /\ apple = Point(Width - appleRadius - 1, Height - appleRadius - 1)
  /\ cheats > 0
  /\ rolls > 1

\* the eating test with the distance taken around the playfield
TorusReaches(s, a) ==
  LET dx == IF a.X > s.Mouth.X THEN a.X - s.Mouth.X ELSE s.Mouth.X - a.X
      dy == IF a.Y > s.Mouth.Y THEN a.Y - s.Mouth.Y ELSE s.Mouth.Y - a.Y
      x  == Min(dx, Width - dx)
      y  == Min(dy, Height - dy)
      r  == appleRadius + snakeWidth \div 2
  IN  x * x + y * y <= r * r

\* C18: whenever TryEat tests a mouth position against the apple, the test
\* on the raw coordinates gives the result of the test with the toroidal
\* distance.
C18_RawIsSeamAware ==
  [][UpdateStep =>
       (Reaches(snakes'[turn], apple) <=> TorusReaches(snakes'[turn], apple))]_vars

----------------------------------------------------------------------------
(* C19, C20: growth and the movement cycle *)

\* C19: every successful eat produces exactly one growth: whenever a snake
\* is Moving, the length of its chain is 2 plus the number of times it has
\* eaten, also when it eats again while it is Eating or Growing.
C19_OneGrowthPerEat ==
  \A i \in 1 .. Len(snakes) :
    snakes[i].state = Moving => Len(snakes[i].segs) = 2 + eaten[i]

\* C20: the chain advances exactly once per movement cycle: in the update
\* of a snake the positions and the length of its chain change when the
\* frame counter is a multiple of period, and only then; the chains of the
\* other snakes are left alone, and so is every chain while TryEat moves
\* the apple again.
C20_ShiftOncePerCycle ==
  [][/\ UpdateStep =>
          /\ (snakes'[turn].segs # snakes[turn].segs) <=> (frame' % period = 0)
          /\ \A i \in 1 .. Len(snakes) : i # turn => snakes'[i] = snakes[i]
     /\ pc = "relocate" => snakes' = snakes]_vars

\* a second cycle is under way: the chain has advanced twice and the frame
\* after the second shift has left it alone
C20_SecondCycle ==
  /\ Idle
  /\ frame = 2 * period + 1
  /\ snakes[1].segs[1] # NewSnake(0).segs[1]
  /\ snakes[1].Mouth # snakes[1].segs[1]

====
